---- MODULE Spec2Model ----
(***************************************************************************)
(* A model of the terminal Tetris game of src/tetris.c: the playfield, the *)
(* falling piece, the row-clear compaction and the main loop's input and   *)
(* gravity steps with their scoring and levelling.                         *)
(***************************************************************************)
EXTENDS Integers, Sequences, FiniteSets, TLC

(***************************************************************************)
(* Playfield dimensions.  src/tetris.c:22-23 sets both to 20; the model    *)
(* checks a smaller playfield so that the reachable boards stay            *)
(* enumerable.  Every definition below is written in terms of these two    *)
(* names, as the source is.                                                *)
(***************************************************************************)
BOARD_WIDTH == 4
BOARD_HEIGHT == 5

EMPTY_CELL == " "
FILLED_CELL == "#"

NUM_OF_SHAPES == 7

(* The number of pieces a run of Spec locks into the board. *)
MaxLocked == 2

(* A run of SpecLong draws only the first LongShapes shapes and locks up to *)
(* LongLocked pieces, enough to clear lines past the first level boundary.  *)
LongShapes == 2
LongLocked == 11

(* Microseconds of processor time that pass in one loop iteration, when any do. *)
TimeQuantum == 500001

(* SpecFair: the number of pieces a run locks. *)
FairLocked == 1

(* SpecHigh: how many more pieces a run locks after its first state. *)
HighLocked == 2

(* SpecInput: how many typed bytes may wait unread, and the one shape it plays. *)
MaxPending == 2
InputShape == 1

Rows == 0 .. (BOARD_HEIGHT - 1)
Cols == 0 .. (BOARD_WIDTH - 1)
Local == 0 .. 3

(* TETROMINO_SHAPE[type][rotation][y][x], indexed from 1 here and from 0 in C. *)
TETROMINO_SHAPE ==
  <<
  (* I_SHAPE *)
  <<
     <<<<0, 0, 0, 0>>, <<1, 1, 1, 1>>, <<0, 0, 0, 0>>, <<0, 0, 0, 0>>>>,
     <<<<0, 0, 1, 0>>, <<0, 0, 1, 0>>, <<0, 0, 1, 0>>, <<0, 0, 1, 0>>>>,
     <<<<0, 0, 0, 0>>, <<0, 0, 0, 0>>, <<1, 1, 1, 1>>, <<0, 0, 0, 0>>>>,
     <<<<0, 1, 0, 0>>, <<0, 1, 0, 0>>, <<0, 1, 0, 0>>, <<0, 1, 0, 0>>>>
  >>,
  (* O_SHAPE *)
  <<
     <<<<0, 0, 0, 0>>, <<0, 1, 1, 0>>, <<0, 1, 1, 0>>, <<0, 0, 0, 0>>>>,
     <<<<0, 0, 0, 0>>, <<0, 1, 1, 0>>, <<0, 1, 1, 0>>, <<0, 0, 0, 0>>>>,
     <<<<0, 0, 0, 0>>, <<0, 1, 1, 0>>, <<0, 1, 1, 0>>, <<0, 0, 0, 0>>>>,
     <<<<0, 0, 0, 0>>, <<0, 1, 1, 0>>, <<0, 1, 1, 0>>, <<0, 0, 0, 0>>>>
  >>,
  (* T_SHAPE *)
  <<
     <<<<0, 0, 0, 0>>, <<0, 1, 0, 0>>, <<1, 1, 1, 0>>, <<0, 0, 0, 0>>>>,
     <<<<0, 0, 0, 0>>, <<0, 1, 0, 0>>, <<0, 1, 1, 0>>, <<0, 1, 0, 0>>>>,
     <<<<0, 0, 0, 0>>, <<0, 0, 0, 0>>, <<1, 1, 1, 0>>, <<0, 1, 0, 0>>>>,
     <<<<0, 0, 0, 0>>, <<0, 1, 0, 0>>, <<1, 1, 0, 0>>, <<0, 1, 0, 0>>>>
  >>,
  (* J_SHAPE *)
  <<
     <<<<0, 0, 0, 0>>, <<1, 0, 0, 0>>, <<1, 1, 1, 0>>, <<0, 0, 0, 0>>>>,
     <<<<0, 0, 0, 0>>, <<0, 1, 1, 0>>, <<0, 1, 0, 0>>, <<0, 1, 0, 0>>>>,
     <<<<0, 0, 0, 0>>, <<0, 0, 0, 0>>, <<1, 1, 1, 0>>, <<0, 0, 1, 0>>>>,
     <<<<0, 0, 0, 0>>, <<0, 1, 0, 0>>, <<0, 1, 0, 0>>, <<1, 1, 0, 0>>>>
  >>,
  (* L_SHAPE *)
  <<
     <<<<0, 0, 0, 0>>, <<0, 0, 1, 0>>, <<1, 1, 1, 0>>, <<0, 0, 0, 0>>>>,
     <<<<0, 0, 0, 0>>, <<0, 1, 0, 0>>, <<0, 1, 0, 0>>, <<0, 1, 1, 0>>>>,
     <<<<0, 0, 0, 0>>, <<0, 0, 0, 0>>, <<1, 1, 1, 0>>, <<1, 0, 0, 0>>>>,
     <<<<0, 0, 0, 0>>, <<1, 1, 0, 0>>, <<0, 1, 0, 0>>, <<0, 1, 0, 0>>>>
  >>,
  (* S_SHAPE *)
  <<
     <<<<0, 0, 0, 0>>, <<0, 1, 1, 0>>, <<1, 1, 0, 0>>, <<0, 0, 0, 0>>>>,
     <<<<0, 0, 0, 0>>, <<0, 1, 0, 0>>, <<0, 1, 1, 0>>, <<0, 0, 1, 0>>>>,
     <<<<0, 0, 0, 0>>, <<0, 0, 0, 0>>, <<0, 1, 1, 0>>, <<1, 1, 0, 0>>>>,
     <<<<0, 0, 0, 0>>, <<1, 0, 0, 0>>, <<1, 1, 0, 0>>, <<0, 1, 0, 0>>>>
  >>,
  (* Z_SHAPE *)
  <<
     <<<<0, 0, 0, 0>>, <<1, 1, 0, 0>>, <<0, 1, 1, 0>>, <<0, 0, 0, 0>>>>,
     <<<<0, 0, 0, 0>>, <<0, 0, 1, 0>>, <<0, 1, 1, 0>>, <<0, 1, 0, 0>>>>,
     <<<<0, 0, 0, 0>>, <<0, 0, 0, 0>>, <<1, 1, 0, 0>>, <<0, 1, 1, 0>>>>,
     <<<<0, 0, 0, 0>>, <<0, 1, 0, 0>>, <<1, 1, 0, 0>>, <<1, 0, 0, 0>>>>
  >>
  >>

(* Mutant for C15: the table is read with its row and column swapped. *)
ShapeAt_Transposed(type, rotation, y, x) ==
    TETROMINO_SHAPE[type + 1][rotation + 1][x + 1][y + 1]

(* Mutant for C16: a 1 of the T shape's first orientation typed as 0. *)
ShapeAt_Typo(type, rotation, y, x) ==
    IF type = 2 /\ rotation = 0 /\ y = 1 /\ x = 1 THEN 0
    ELSE TETROMINO_SHAPE[type + 1][rotation + 1][y + 1][x + 1]

ShapeAt(type, rotation, y, x) == TETROMINO_SHAPE[type + 1][rotation + 1][y + 1][x + 1]

VARIABLES
    board,          \* char board[BOARD_HEIGHT][BOARD_WIDTH]
    piece,          \* s_Tetromino piece: x, y, type, rotation
    score,
    level,
    linesCleared,   \* main's running total of cleared lines
    dropSpeed,      \* gravity interval in microseconds
    gameOver,
    elapsed,        \* (clock() - lastDrop) * 1000000 / CLOCKS_PER_SEC
    pc,             \* position in main's loop: "input", "gravity" or "done"
    locked,         \* history: number of placeTetromino calls so far
    call,           \* history: the move or rotate attempt the latest step made
    run,            \* history: the rotate calls made in a row, and the piece they began with
    given,          \* SpecClear: the board clearLines was called on
    result,         \* SpecClear: the count clearLines returned
    limits,         \* what a run draws from rand() and how many pieces it locks
    stdin,          \* the bytes typed and not yet read from file descriptor 0
    key             \* char key of line 597: what getch() returned in this iteration

vars ==
    <<board, piece, score, level, linesCleared, dropSpeed, gameOver, elapsed, pc,
      locked, call, run, given, result, limits, stdin, key>>

initBoard == [y \in Rows |-> [x \in Cols |-> EMPTY_CELL]]

createTetronino(r) ==
    [type |-> r % NUM_OF_SHAPES, rotation |-> 0, x |-> (BOARD_WIDTH \div 2) - 2, y |-> 0]

(* Mutant for C6: the collision test of lines 393-395 left out. *)
is_in_valid_position_BoundsOnly(b, p) ==
    \A x \in Local : \A y \in Local :
        ShapeAt(p.type, p.rotation, y, x) # 0 =>
            LET boardX == p.x + x
                boardY == p.y + y
            IN  ~(boardX < 0 \/ boardX >= BOARD_WIDTH \/ boardY < 0 \/ boardY >= BOARD_HEIGHT)

is_in_valid_position(b, p) ==
    \A x \in Local : \A y \in Local :
        ShapeAt(p.type, p.rotation, y, x) # 0 =>
            LET boardX == p.x + x
                boardY == p.y + y
            IN  /\ ~(boardX < 0 \/ boardX >= BOARD_WIDTH \/ boardY < 0 \/ boardY >= BOARD_HEIGHT)
                /\ b[boardY][boardX] = EMPTY_CELL

(* Mutant for C4: the y-- of line 407 left out. *)
moveTetrominoDown_NoRollback(b, p) ==
    LET q == [p EXCEPT !.y = p.y + 1]
    IN  [piece |-> q, ok |-> is_in_valid_position(b, q)]

(* Each attempt returns the piece it leaves behind and the boolean it returns. *)
moveTetrominoDown(b, p) ==
    LET q == [p EXCEPT !.y = p.y + 1]
    IN  IF ~is_in_valid_position(b, q)
        THEN [piece |-> [q EXCEPT !.y = q.y - 1], ok |-> FALSE]
        ELSE [piece |-> q, ok |-> TRUE]

(* Mutant for C5: the x++ of line 418 left out. *)
moveTetrominoLeft_NoRollback(b, p) ==
    LET q == [p EXCEPT !.x = p.x - 1]
    IN  [piece |-> q, ok |-> is_in_valid_position(b, q)]

moveTetrominoLeft(b, p) ==
    LET q == [p EXCEPT !.x = p.x - 1]
    IN  IF ~is_in_valid_position(b, q)
        THEN [piece |-> [q EXCEPT !.x = q.x + 1], ok |-> FALSE]
        ELSE [piece |-> q, ok |-> TRUE]

moveTetrominoRight(b, p) ==
    LET q == [p EXCEPT !.x = p.x + 1]
    IN  IF ~is_in_valid_position(b, q)
        THEN [piece |-> [q EXCEPT !.x = q.x - 1], ok |-> FALSE]
        ELSE [piece |-> q, ok |-> TRUE]

(* Mutant for C7: a refused rotation falls back to rotation 0, not to the one before. *)
rotateTetromino_BackToZero(b, p) ==
    LET q == [p EXCEPT !.rotation = (p.rotation + 1) % 4]
    IN  IF ~is_in_valid_position(b, q)
        THEN [piece |-> [q EXCEPT !.rotation = 0], ok |-> FALSE]
        ELSE [piece |-> q, ok |-> TRUE]

(* Mutant for C20: a refused rotation is reported but not rolled back. *)
rotateTetromino_NoRollback(b, p) ==
    LET q == [p EXCEPT !.rotation = (p.rotation + 1) % 4]
    IN  [piece |-> q, ok |-> is_in_valid_position(b, q)]

rotateTetromino(b, p) ==
    LET defaultRotation == p.rotation
        newRotation == (p.rotation + 1) % 4
        q == [p EXCEPT !.rotation = newRotation]
    IN  IF ~is_in_valid_position(b, q)
        THEN [piece |-> [q EXCEPT !.rotation = defaultRotation], ok |-> FALSE]
        ELSE [piece |-> q, ok |-> TRUE]

(* The <<boardY, boardX>> that the loops of lines 382-387 test, when none fails. *)
TestedCells(p) ==
    UNION { { <<p.y + y, p.x + x>> :
                y \in { row \in Local : ShapeAt(p.type, p.rotation, row, x) # 0 } } :
            x \in Local }

(* Mutant for C19: the write is board[boardX][boardY]. *)
PlacedCells_SwappedIndex(p) ==
    { <<p.x + c[2], p.y + c[1]>> :
        c \in { yx \in Local \X Local : ShapeAt(p.type, p.rotation, yx[1], yx[2]) # 0 } }

(* The <<boardY, boardX>> that the loops of lines 449-454 write to. *)
PlacedCells(p) ==
    { <<p.y + c[1], p.x + c[2]>> :
        c \in { yx \in Local \X Local : ShapeAt(p.type, p.rotation, yx[1], yx[2]) # 0 } }

(* A write outside the array is undefined behaviour in C.  The model leaves the   *)
(* rest of the board alone there; PlaceWritesEmptyCells shows no run gets there.  *)
placeTetromino(b, p) ==
    [boardY \in Rows |-> [boardX \in Cols |->
        IF <<boardY, boardX>> \in PlacedCells(p) THEN FILLED_CELL ELSE b[boardY][boardX]]]

lineComplete(b, y) == \A x \in Cols : b[y][x] # EMPTY_CELL

(* Mutant for C3: the shift starts at the bottom row instead of row y. *)
ShiftDown_WholeBoard(b, y) ==
    [moveY \in Rows |-> [x \in Cols |->
        IF moveY = 0 THEN EMPTY_CELL ELSE b[moveY - 1][x]]]

(* Lines 536-545: rows above y move down by one and row 0 is emptied. *)
ShiftDown(b, y) ==
    [moveY \in Rows |-> [x \in Cols |->
        IF moveY = 0 THEN EMPTY_CELL
        ELSE IF moveY <= y THEN b[moveY - 1][x]
        ELSE b[moveY][x]]]

(* Mutant for C2: the y++ of line 546 left out, so the row that slid in is skipped. *)
RECURSIVE clearLoop_NoRescan(_, _, _)
clearLoop_NoRescan(b, y, n) ==
    IF y < 0 THEN [board |-> b, lines |-> n]
    ELSE IF lineComplete(b, y) THEN clearLoop_NoRescan(ShiftDown(b, y), y - 1, n + 1)
    ELSE clearLoop_NoRescan(b, y - 1, n)

(* The loop of lines 521-548 from row y with n lines counted so far; after a *)
(* removal y++ and the loop's y-- look at the same row again.                *)
RECURSIVE clearLoop(_, _, _)
clearLoop(b, y, n) ==
    IF y < 0 THEN [board |-> b, lines |-> n]
    ELSE IF lineComplete(b, y) THEN clearLoop(ShiftDown(b, y), y, n + 1)
    ELSE clearLoop(b, y - 1, n)

clearLines(b) == clearLoop(b, BOARD_HEIGHT - 1, 0)



INITIAL_DROP_SPEED == 500000
LINE_SCORE == 100
LINES_PER_LEVEL == 10

(* Mutant for C10: score = ... where the code has score += ... *)
addScore_Assigns(sc, lines, lv) == lines * LINE_SCORE * lv

(* Lines 618-623, and again 645-650: the bookkeeping of a lock that cleared lines. *)
addScore(sc, lines, lv) == sc + lines * LINE_SCORE * lv

levelFor(total) == (total \div LINES_PER_LEVEL) + 1

(* The <<boardY, boardX>> that the loops of lines 477-488 draw the piece on. *)
OverlaidCells(p) ==
    { c \in UNION { { <<p.y + y, p.x + x>> :
                        y \in { row \in Local : ShapeAt(p.type, p.rotation, row, x) # 0 } } :
                    x \in Local } :
        c[2] >= 0 /\ c[2] < BOARD_WIDTH /\ c[1] >= 0 /\ c[1] < BOARD_HEIGHT }

(* tempBoard of displayGame as it is printed: lines 466-488. *)
displayGame(b, p) ==
    LET drawn == OverlaidCells(p)
    IN  [i \in Rows |-> [j \in Cols |->
            IF <<i, j>> \in drawn THEN FILLED_CELL ELSE b[i][j]]]

(* Mutant for C11: the interval is multiplied by the level. *)
dropSpeedFor_Multiplies(lv) == INITIAL_DROP_SPEED * lv

dropSpeedFor(lv) == INITIAL_DROP_SPEED \div lv

NoCall == [op |-> "none"]
NoRun == [n |-> 0]

(* Mutant for C8: level is recomputed before the score is added. *)
lockPiece_LevelFirst(s, r) ==
    LET placed == placeTetromino(s.board, s.piece)
        cleared == clearLines(placed)
        lines == cleared.lines
        total == IF lines > 0 THEN s.linesCleared + lines ELSE s.linesCleared
        lv == IF lines > 0 THEN levelFor(total) ELSE s.level
        fresh == createTetronino(r)
    IN  [s EXCEPT
            !.board = cleared.board,
            !.piece = fresh,
            !.score = IF lines > 0 THEN addScore(s.score, lines, lv) ELSE s.score,
            !.level = lv,
            !.linesCleared = total,
            !.dropSpeed = IF lines > 0 THEN dropSpeedFor(lv) ELSE s.dropSpeed,
            !.gameOver = IF ~is_in_valid_position(cleared.board, fresh) THEN TRUE ELSE s.gameOver,
            !.locked = s.locked + 1]

(* Mutant for C9: level is computed from this lock's lines, not from the total. *)
lockPiece_LevelFromLines(s, r) ==
    LET placed == placeTetromino(s.board, s.piece)
        cleared == clearLines(placed)
        lines == cleared.lines
        total == IF lines > 0 THEN s.linesCleared + lines ELSE s.linesCleared
        lv == IF lines > 0 THEN levelFor(lines) ELSE s.level
        fresh == createTetronino(r)
    IN  [s EXCEPT
            !.board = cleared.board,
            !.piece = fresh,
            !.score = IF lines > 0 THEN addScore(s.score, lines, s.level) ELSE s.score,
            !.level = lv,
            !.linesCleared = total,
            !.dropSpeed = IF lines > 0 THEN dropSpeedFor(lv) ELSE s.dropSpeed,
            !.gameOver = IF ~is_in_valid_position(cleared.board, fresh) THEN TRUE ELSE s.gameOver,
            !.locked = s.locked + 1]

(* Mutant for C22: linesCleared = lines where the code has linesCleared += lines. *)
lockPiece_TotalAssigned(s, r) ==
    LET placed == placeTetromino(s.board, s.piece)
        cleared == clearLines(placed)
        lines == cleared.lines
        total == IF lines > 0 THEN lines ELSE s.linesCleared
        lv == IF lines > 0 THEN levelFor(total) ELSE s.level
        fresh == createTetronino(r)
    IN  [s EXCEPT
            !.board = cleared.board,
            !.piece = fresh,
            !.score = IF lines > 0 THEN addScore(s.score, lines, s.level) ELSE s.score,
            !.level = lv,
            !.linesCleared = total,
            !.dropSpeed = IF lines > 0 THEN dropSpeedFor(lv) ELSE s.dropSpeed,
            !.gameOver = IF ~is_in_valid_position(cleared.board, fresh) THEN TRUE ELSE s.gameOver,
            !.locked = s.locked + 1]

(* Mutant for C13: the fresh piece is not tested, gameOver is left alone. *)
lockPiece_SpawnUnchecked(s, r) ==
    LET placed == placeTetromino(s.board, s.piece)
        cleared == clearLines(placed)
        lines == cleared.lines
        total == IF lines > 0 THEN s.linesCleared + lines ELSE s.linesCleared
        lv == IF lines > 0 THEN levelFor(total) ELSE s.level
        fresh == createTetronino(r)
    IN  [s EXCEPT
            !.board = cleared.board,
            !.piece = fresh,
            !.score = IF lines > 0 THEN addScore(s.score, lines, s.level) ELSE s.score,
            !.level = lv,
            !.linesCleared = total,
            !.dropSpeed = IF lines > 0 THEN dropSpeedFor(lv) ELSE s.dropSpeed,
            !.locked = s.locked + 1]

(***************************************************************************)
(* The body of `if (!moveTetrominoDown(&piece)) { ... }`, which main has   *)
(* twice: lines 614-629 under case 's' and lines 641-656 under the gravity *)
(* timeout.  s is the session (main's locals and the board) after the      *)
(* failed descent, r is what rand() returns to createTetronino.            *)
(***************************************************************************)
lockPiece(s, r) ==
    LET placed == placeTetromino(s.board, s.piece)
        cleared == clearLines(placed)
        lines == cleared.lines
        total == IF lines > 0 THEN s.linesCleared + lines ELSE s.linesCleared
        lv == IF lines > 0 THEN levelFor(total) ELSE s.level
        fresh == createTetronino(r)
    IN  [s EXCEPT
            !.board = cleared.board,
            !.piece = fresh,
            !.score = IF lines > 0 THEN addScore(s.score, lines, s.level) ELSE s.score,
            !.level = lv,
            !.linesCleared = total,
            !.dropSpeed = IF lines > 0 THEN dropSpeedFor(lv) ELSE s.dropSpeed,
            !.gameOver = IF ~is_in_valid_position(cleared.board, fresh) THEN TRUE ELSE s.gameOver,
            !.locked = s.locked + 1]

(* `if (!moveTetrominoDown(&piece)) { ... }` as a whole; op names the caller. *)
dropOrLock(s, r, op) ==
    LET down == moveTetrominoDown(s.board, s.piece)
        called == [s EXCEPT
                      !.piece = down.piece,
                      !.call = [op |-> op, ok |-> down.ok, from |-> s.piece,
                                to |-> down.piece, board |-> s.board]]
    IN  IF ~down.ok THEN lockPiece(called, r) ELSE called

Session ==
    [board |-> board, piece |-> piece, score |-> score, level |-> level,
     linesCleared |-> linesCleared, dropSpeed |-> dropSpeed, gameOver |-> gameOver,
     locked |-> locked, call |-> call]

SetSession(s) ==
    /\ board' = s.board
    /\ piece' = s.piece
    /\ score' = s.score
    /\ level' = s.level
    /\ linesCleared' = s.linesCleared
    /\ dropSpeed' = s.dropSpeed
    /\ gameOver' = s.gameOver
    /\ locked' = s.locked
    /\ call' = s.call

(* The processor time one pass over lines 590-596 may add to clock() - lastDrop. *)
TimePasses(e) == { e2 \in {e, e + TimeQuantum} : e2 <= TimeQuantum }

(* A descent that would lock is taken only while the run may still lock a piece. *)
MayDescend == moveTetrominoDown(board, piece).ok \/ locked < limits.maxLocked

(* The rotate calls made in a row: a fifth call begins a new run. *)
RunAfterRotate ==
    IF ~limits.track THEN NoRun
    ELSE IF run.n = 0 \/ run.n = 4 THEN [n |-> 1, from |-> piece]
    ELSE [run EXCEPT !.n = run.n + 1]

(***************************************************************************)
(* The input layer.  A byte is named by the case of main's switch it       *)
(* selects; OTHER_KEY stands for every byte the switch has no case for,    *)
(* NoChar for an iteration in which line 597 is not reached.               *)
(***************************************************************************)
OTHER_KEY == "x"

NoChar == ""

Chars == {"a", "d", "w", "s", "q", OTHER_KEY}

(* keybit() on the pending bytes: its read() takes the first one, or fails  *)
(* with EAGAIN when there is none.                                          *)
keybit(in) ==
    IF in # << >> THEN [ret |-> 1, in |-> Tail(in)] ELSE [ret |-> 0, in |-> in]

(* getch() on the pending bytes: its read() takes the next one; when there  *)
(* is none the read fails, its result is ignored and the uninitialized ch   *)
(* is returned, here junk.                                                  *)
getch(in, junk) ==
    IF in # << >> THEN [ch |-> Head(in), in |-> Tail(in)] ELSE [ch |-> junk, in |-> in]

(***************************************************************************)
(* Lines 596-597 ending with k in key.  Where a run does not model the     *)
(* typed bytes (limits.input is FALSE) any k may arrive; where it does,    *)
(* k is what keybit() and getch() make of stdin.                           *)
(***************************************************************************)
Read(k) ==
    /\ key' = k
    /\ IF ~limits.input THEN UNCHANGED stdin
       ELSE LET polled == keybit(stdin)
            IN  IF k = NoChar THEN polled.ret = 0 /\ stdin' = polled.in
                ELSE /\ polled.ret = 1
                     /\ \E junk \in Chars :
                            LET got == getch(polled.in, junk)
                            IN  got.ch = k /\ stdin' = got.in

(* main's state at line 589, before the first iteration. *)
InitSession ==
    /\ board = initBoard
    /\ \E r \in limits.rand : piece = createTetronino(r)
    /\ score = 0
    /\ level = 1
    /\ linesCleared = 0
    /\ dropSpeed = INITIAL_DROP_SPEED
    /\ gameOver = FALSE
    /\ elapsed = 0
    /\ pc = "input"
    /\ locked = 0
    /\ call = NoCall
    /\ run = NoRun
    /\ given = initBoard
    /\ result = 0
    /\ stdin = << >>
    /\ key = NoChar

Init ==
    /\ limits = [rand |-> 0 .. (NUM_OF_SHAPES - 1), maxLocked |-> MaxLocked, track |-> FALSE, input |-> FALSE]
    /\ InitSession

(* keybit() finds no byte: lines 596-636 do nothing. *)
NoKey ==
    /\ pc = "input"
    /\ Read(NoChar)
    /\ elapsed' \in TimePasses(elapsed)
    /\ call' = NoCall
    /\ pc' = "gravity"
    /\ UNCHANGED <<board, piece, score, level, linesCleared, dropSpeed, gameOver, locked>>
    /\ UNCHANGED <<run, given, result, limits>>

(* A key the switch has no case for. *)
KeyOther ==
    /\ pc = "input"
    /\ Read(OTHER_KEY)
    /\ elapsed' \in TimePasses(elapsed)
    /\ call' = NoCall
    /\ pc' = "gravity"
    /\ UNCHANGED <<board, piece, score, level, linesCleared, dropSpeed, gameOver, locked>>
    /\ UNCHANGED <<run, given, result, limits>>

KeyLeft ==
    /\ pc = "input"
    /\ Read("a")
    /\ LET moved == moveTetrominoLeft(board, piece)
       IN  /\ piece' = moved.piece
           /\ call' = [op |-> "left", ok |-> moved.ok, from |-> piece,
                       to |-> moved.piece, board |-> board]
    /\ elapsed' \in TimePasses(elapsed)
    /\ run' = NoRun
    /\ pc' = "gravity"
    /\ UNCHANGED <<board, score, level, linesCleared, dropSpeed, gameOver, locked>>
    /\ UNCHANGED <<given, result, limits>>

KeyRight ==
    /\ pc = "input"
    /\ Read("d")
    /\ LET moved == moveTetrominoRight(board, piece)
       IN  /\ piece' = moved.piece
           /\ call' = [op |-> "right", ok |-> moved.ok, from |-> piece,
                       to |-> moved.piece, board |-> board]
    /\ elapsed' \in TimePasses(elapsed)
    /\ run' = NoRun
    /\ pc' = "gravity"
    /\ UNCHANGED <<board, score, level, linesCleared, dropSpeed, gameOver, locked>>
    /\ UNCHANGED <<given, result, limits>>

(* Mutant for C17: case 'w' lacks its break and runs on into case 's'. *)
KeyRotate_FallsThrough ==
    /\ pc = "input"
    /\ Read("w")
    /\ MayDescend
    /\ LET turned == rotateTetromino(board, piece)
       IN  \E r \in limits.rand :
               SetSession(dropOrLock([Session EXCEPT !.piece = turned.piece], r, "down"))
    /\ elapsed' = 0
    /\ run' = NoRun
    /\ pc' = "gravity"
    /\ UNCHANGED <<given, result, limits>>

KeyRotate ==
    /\ pc = "input"
    /\ Read("w")
    /\ LET turned == rotateTetromino(board, piece)
       IN  /\ piece' = turned.piece
           /\ call' = [op |-> "rotate", ok |-> turned.ok, from |-> piece,
                       to |-> turned.piece, board |-> board]
    /\ elapsed' \in TimePasses(elapsed)
    /\ run' = RunAfterRotate
    /\ pc' = "gravity"
    /\ UNCHANGED <<board, score, level, linesCleared, dropSpeed, gameOver, locked>>
    /\ UNCHANGED <<given, result, limits>>

(* case 's': the descent or the lock, then lastDrop = clock() (line 630).  The  *)
(* clock() of line 639 follows at once, so the gravity step of this iteration *)
(* sees no time elapsed.                                                      *)
KeyDown ==
    /\ pc = "input"
    /\ Read("s")
    /\ MayDescend
    /\ \E r \in limits.rand : SetSession(dropOrLock(Session, r, "down"))
    /\ elapsed' = 0
    /\ run' = NoRun
    /\ pc' = "gravity"
    /\ UNCHANGED <<given, result, limits>>

(* Mutant for C14: case 'q' breaks out of the switch without setting gameOver. *)
KeyQuit_OnlyBreaks ==
    /\ pc = "input"
    /\ Read("q")
    /\ elapsed' \in TimePasses(elapsed)
    /\ call' = NoCall
    /\ pc' = "gravity"
    /\ UNCHANGED <<board, piece, score, level, linesCleared, dropSpeed, gameOver, locked>>
    /\ UNCHANGED <<run, given, result, limits>>

KeyQuit ==
    /\ pc = "input"
    /\ Read("q")
    /\ gameOver' = TRUE
    /\ elapsed' \in TimePasses(elapsed)
    /\ call' = NoCall
    /\ pc' = "gravity"
    /\ UNCHANGED <<board, piece, score, level, linesCleared, dropSpeed, locked>>
    /\ UNCHANGED <<run, given, result, limits>>

(* Mutant for C21: on the timeout a piece that cannot descend is left where it is. *)
GravityDrop_NeverLocks ==
    /\ pc = "gravity"
    /\ key' = NoChar
    /\ UNCHANGED stdin
    /\ elapsed > dropSpeed
    /\ LET down == moveTetrominoDown(board, piece)
       IN  /\ piece' = down.piece
           /\ call' = [op |-> "gravity", ok |-> down.ok, from |-> piece,
                       to |-> down.piece, board |-> board]
    /\ elapsed' = 0
    /\ run' = NoRun
    /\ pc' = IF gameOver THEN "done" ELSE "input"
    /\ UNCHANGED <<board, score, level, linesCleared, dropSpeed, gameOver, locked>>
    /\ UNCHANGED <<given, result, limits>>

(* Lines 639-661 with the interval elapsed: the automatic drop, lastDrop = *)
(* currentTime, and the loop condition.                                    *)
GravityDrop ==
    /\ pc = "gravity"
    /\ key' = NoChar
    /\ UNCHANGED stdin
    /\ elapsed > dropSpeed
    /\ MayDescend
    /\ \E r \in limits.rand : SetSession(dropOrLock(Session, r, "gravity"))
    /\ elapsed' = 0
    /\ run' = NoRun
    /\ pc' = IF gameOver' THEN "done" ELSE "input"
    /\ UNCHANGED <<given, result, limits>>

(* Lines 639-661 with the interval not yet elapsed. *)
GravityWait ==
    /\ pc = "gravity"
    /\ key' = NoChar
    /\ UNCHANGED stdin
    /\ ~(elapsed > dropSpeed)
    /\ call' = NoCall
    /\ pc' = IF gameOver THEN "done" ELSE "input"
    /\ UNCHANGED <<board, piece, score, level, linesCleared, dropSpeed, gameOver, locked>>
    /\ UNCHANGED <<elapsed, run, given, result, limits>>

Next ==
    \/ NoKey
    \/ KeyOther
    \/ KeyLeft
    \/ KeyRight
    \/ KeyRotate
    \/ KeyDown
    \/ KeyQuit
    \/ GravityDrop
    \/ GravityWait

Spec == Init /\ [][Next]_vars

(* A long run of few shapes: lines are cleared past the first level boundary. *)
InitLong ==
    /\ limits = [rand |-> 0 .. (LongShapes - 1), maxLocked |-> LongLocked, track |-> FALSE, input |-> FALSE]
    /\ InitSession

(***************************************************************************)
(* The session under the scheduling the code gives it.  The loop has no    *)
(* blocking call (the read is non-blocking, usleep returns), so a step     *)
(* that can be taken is taken.  clock() counts the processor time the loop *)
(* itself spends, and lastDrop is moved only by case 's' (line 630) and by *)
(* the gravity block (line 657), so iterations in which line 640 finds the *)
(* interval elapsed keep coming: Timeout is such an iteration's input step.*)
(* The fairness is stated on the steps that lock nothing; LockDue is the   *)
(* one state the locking step of the gravity block starts from.            *)
(***************************************************************************)
InputStep == NoKey \/ KeyOther \/ KeyLeft \/ KeyRight \/ KeyRotate \/ KeyQuit

Timeout == InputStep /\ elapsed' > dropSpeed'

GravityFalls == moveTetrominoDown(board, piece).ok /\ GravityDrop

LockDue == pc = "gravity" /\ elapsed > dropSpeed /\ ~moveTetrominoDown(board, piece).ok

InitFair ==
    /\ limits = [rand |-> 0 .. (NUM_OF_SHAPES - 1), maxLocked |-> FairLocked,
                 track |-> FALSE, input |-> FALSE]
    /\ InitSession

SpecFair ==
    /\ InitFair
    /\ [][Next]_vars
    /\ WF_vars(InputStep)
    /\ SF_vars(Timeout)
    /\ WF_vars(GravityFalls)
    /\ WF_vars(GravityWait)

(* The player types a byte: it waits on file descriptor 0 until it is read. *)
TypeKey ==
    /\ limits.input
    /\ pc # "done"
    /\ Len(stdin) < MaxPending
    /\ \E c \in Chars : stdin' = Append(stdin, c)
    /\ UNCHANGED <<board, piece, score, level, linesCleared, dropSpeed, gameOver, elapsed, pc>>
    /\ UNCHANGED <<locked, call, run, given, result, limits, key>>

NextInput == TypeKey \/ Next

(* One piece, with the typed bytes modelled. *)
InitInput ==
    /\ limits = [rand |-> {InputShape}, maxLocked |-> 1, track |-> FALSE, input |-> TRUE]
    /\ InitSession

SpecInput == InitInput /\ [][NextInput]_vars

(***************************************************************************)
(* A session late in a very long game: the loop boundary that follows the  *)
(* lock of the 4999999th I piece, each of which was dropped flat onto the  *)
(* empty board with 's' and cleared the one row it filled.  level and      *)
(* dropSpeed are what lines 622-623 computed at that lock.  score passed   *)
(* INT_MAX long before (signed overflow at line 619); the value here is    *)
(* the one a wrapping build holds, the sum 125000200000000 reduced to 32   *)
(* bits two's complement.                                                  *)
(***************************************************************************)
SpeedFloorLines == LINES_PER_LEVEL * INITIAL_DROP_SPEED

InitHigh ==
    /\ limits = [rand |-> {0}, maxLocked |-> (SpeedFloorLines - 1) + HighLocked,
                 track |-> FALSE, input |-> FALSE]
    /\ board = initBoard
    /\ piece = createTetronino(0)
    /\ score = -528182784
    /\ linesCleared = SpeedFloorLines - 1
    /\ level = levelFor(linesCleared)
    /\ dropSpeed = dropSpeedFor(level)
    /\ gameOver = FALSE
    /\ elapsed = 0
    /\ pc = "input"
    /\ locked = SpeedFloorLines - 1
    /\ call = NoCall
    /\ run = NoRun
    /\ given = initBoard
    /\ result = 0
    /\ stdin = << >>
    /\ key = NoChar

SpecHigh == InitHigh /\ [][Next]_vars

SpecLong == InitLong /\ [][Next]_vars

(* Spec with the runs of rotate calls recorded. *)
InitRotate ==
    /\ limits = [rand |-> 0 .. (NUM_OF_SHAPES - 1), maxLocked |-> MaxLocked, track |-> TRUE, input |-> FALSE]
    /\ InitSession

SpecRotate == InitRotate /\ [][Next]_vars

(***************************************************************************)
(* clearLines on its own: called once on a board whose rows are each       *)
(* filled from the left up to some column (none, some or all of the row).  *)
(***************************************************************************)
PrefixRow(k) == [x \in Cols |-> IF x < k THEN FILLED_CELL ELSE EMPTY_CELL]

ClearBoards == [Rows -> { PrefixRow(k) : k \in 0 .. BOARD_WIDTH }]

InitClear ==
    /\ board \in ClearBoards
    /\ given = board
    /\ result = 0
    /\ pc = "call"
    /\ piece = createTetronino(0)
    /\ score = 0
    /\ level = 1
    /\ linesCleared = 0
    /\ dropSpeed = INITIAL_DROP_SPEED
    /\ gameOver = FALSE
    /\ elapsed = 0
    /\ locked = 0
    /\ call = NoCall
    /\ run = NoRun
    /\ stdin = << >>
    /\ key = NoChar
    /\ limits = [rand |-> {}, maxLocked |-> 0, track |-> FALSE, input |-> FALSE]

CallClearLines ==
    /\ pc = "call"
    /\ LET cleared == clearLines(board)
       IN  /\ board' = cleared.board
           /\ result' = cleared.lines
    /\ pc' = "return"
    /\ UNCHANGED <<piece, score, level, linesCleared, dropSpeed, gameOver, elapsed>>
    /\ UNCHANGED <<locked, call, run, given, limits, stdin, key>>

SpecClear == InitClear /\ [][CallClearLines]_vars

(***************************************************************************)
(* What the properties below are stated with.                              *)
(***************************************************************************)
RowFull(b, y) == \A x \in Cols : b[y][x] = FILLED_CELL

RowEmpty(b, y) == \A x \in Cols : b[y][x] = EMPTY_CELL

FullRows(b) == { y \in Rows : RowFull(b, y) }

(* The rows of b that are not full, pushed to the bottom in their order, under empty rows. *)
Compacted(b) ==
    LET keep == Rows \ FullRows(b)
        removed == Cardinality(FullRows(b))
        nth(i) == CHOOSE y \in keep : Cardinality({ z \in keep : z < y }) = i
    IN  [y \in Rows |-> IF y < removed THEN [x \in Cols |-> EMPTY_CELL] ELSE b[nth(y - removed)]]

(* Occupied cells in bounds and on Empty cells of b. *)
Legal(b, p) ==
    \A r \in Local : \A c \in Local :
        ShapeAt(p.type, p.rotation, r, c) = 1 =>
            /\ p.y + r \in Rows
            /\ p.x + c \in Cols
            /\ b[p.y + r][p.x + c] = EMPTY_CELL

(* The state an attempt asks for. *)
Target(op, p) ==
    CASE op = "left" -> [p EXCEPT !.x = p.x - 1]
      [] op = "right" -> [p EXCEPT !.x = p.x + 1]
      [] op = "rotate" -> [p EXCEPT !.rotation = (p.rotation + 1) % 4]
      [] op \in {"down", "gravity"} -> [p EXCEPT !.y = p.y + 1]

(* Board b with the cells under piece p Filled. *)
WithPiece(b, p) ==
    [y \in Rows |-> [x \in Cols |->
        IF <<y, x>> \in PlacedCells(p) THEN FILLED_CELL ELSE b[y][x]]]

(* The step locked a piece: its descent, by key or by gravity, failed. *)
Locked == call.op \in {"down", "gravity"} /\ ~call.ok

(***************************************************************************)
(* C1: once gameOver is true, no later step changes the board, the active  *)
(* piece, score, level or the total of cleared lines, the gravity step of  *)
(* the same loop iteration included.                                       *)
(***************************************************************************)
GameOverIsTerminal ==
    [][gameOver => UNCHANGED <<board, piece, score, level, linesCleared>>]_vars

(***************************************************************************)
(* C2: after clearLines returns no row of the board is complete, and the   *)
(* count it returns is the number of rows that were complete before.       *)
(***************************************************************************)
ClearLinesRemovesEveryFullRow ==
    pc = "return" =>
        /\ FullRows(board) = {}
        /\ result = Cardinality(FullRows(given))

(* The two bottom rows full and nothing else: both go in the one call. *)
TwoBottomRowsCleared ==
    /\ pc = "return"
    /\ FullRows(given) = {BOARD_HEIGHT - 2, BOARD_HEIGHT - 1}
    /\ result = 2

(***************************************************************************)
(* C3: the board after clearLines is the rows that were not complete, in   *)
(* their order and unchanged, at the bottom, under one empty row for each  *)
(* row removed; a board with no complete row comes back as it was, with 0. *)
(***************************************************************************)
ClearLinesCompacts ==
    pc = "return" =>
        /\ board = Compacted(given)
        /\ FullRows(given) = {} => (board = given /\ result = 0)

(* One full row with rows that hold cells above and below it. *)
OneFullRowBetween ==
    /\ pc = "return"
    /\ \E k \in 1 .. (BOARD_HEIGHT - 2) :
        /\ FullRows(given) = {k}
        /\ \A y \in Rows : ~RowEmpty(given, y)
        /\ \A y \in 0 .. (k - 1) : board[y + 1] = given[y]
        /\ RowEmpty(board, 0)
    /\ result = 1

(***************************************************************************)
(* C4: every cell placeTetromino writes is on the board and is Empty       *)
(* before the write.                                                       *)
(***************************************************************************)
PlaceWritesEmptyCells ==
    Locked =>
        \A c \in PlacedCells(call.to) :
            /\ c[1] \in Rows
            /\ c[2] \in Cols
            /\ call.board[c[1]][c[2]] = EMPTY_CELL

(* A second piece locked by gravity, on a board that already holds cells. *)
SecondPiecePlaced ==
    /\ Locked
    /\ call.op = "gravity"
    /\ locked = 2
    /\ \E y \in Rows : ~RowEmpty(call.board, y)

(***************************************************************************)
(* C5: when a move or rotate attempt returns false the piece is what it    *)
(* was before the call, and the board is unchanged.                        *)
(***************************************************************************)
FailedAttemptChangesNothing ==
    (call.op # "none" /\ ~call.ok) =>
        /\ call.to = call.from
        /\ call.op \in {"left", "right", "rotate"} => (piece = call.from /\ board = call.board)

(* A rotation refused on a board that holds cells. *)
RotateRefused ==
    /\ call.op = "rotate"
    /\ ~call.ok
    /\ locked > 0

(***************************************************************************)
(* C6: an attempt returns true exactly when the state it asks for (one     *)
(* cell over, or the next rotation at the same x and y) is legal, and then *)
(* the piece is exactly that state.                                        *)
(***************************************************************************)
AttemptTakesNaiveTarget ==
    call.op # "none" =>
        LET target == Target(call.op, call.from)
        IN  /\ call.ok <=> Legal(call.board, target)
            /\ call.ok => (call.to = target /\ piece = target /\ board = call.board)

(* A rotation from 3 back to 0 that is taken, next to cells already placed. *)
RotateWrapsAround ==
    /\ call.op = "rotate"
    /\ call.ok
    /\ call.from.rotation = 3
    /\ piece.rotation = 0
    /\ locked > 0

(***************************************************************************)
(* C7 as claimed: four rotateTetromino calls in a row leave the piece as   *)
(* it was.                                                                 *)
(***************************************************************************)
FourRotationsRestore == run.n = 4 => piece = run.from

(* The piece the run began with, turned to rotation r. *)
RunTurned(r) == [run.from EXCEPT !.rotation = r % 4]

(***************************************************************************)
(* C7 amended: four rotateTetromino calls in a row leave x, y and type as  *)
(* they were, and leave the rotation as it was exactly when the next       *)
(* rotation is illegal there (every call fails) or all the other three are *)
(* legal there (every call succeeds).                                      *)
(***************************************************************************)
FourRotationsRestoreIfAllLegal ==
    run.n = 4 =>
        LET r0 == run.from.rotation
            ok1 == Legal(board, RunTurned(r0 + 1))
            ok2 == Legal(board, RunTurned(r0 + 2))
            ok3 == Legal(board, RunTurned(r0 + 3))
        IN  /\ piece.x = run.from.x
            /\ piece.y = run.from.y
            /\ piece.type = run.from.type
            /\ piece.rotation = r0 <=> (~ok1 \/ (ok1 /\ ok2 /\ ok3))

(* Four calls that each turned the piece, next to cells already placed. *)
FullTurn ==
    /\ run.n = 4
    /\ piece = run.from
    /\ \A r \in 1 .. 3 : Legal(board, RunTurned(run.from.rotation + r))
    /\ run.from.type # 1
    /\ locked > 0

(***************************************************************************)
(* C8: a step that locks places the piece, compacts the rows, adds         *)
(* lines * 100 * level to score with the level from before the step, adds  *)
(* lines to the total, sets level and the gravity interval from the new    *)
(* total, and spawns the new piece against the compacted board.            *)
(***************************************************************************)
LockStepOrder ==
    [][/\ Locked' <=> locked' = locked + 1
       /\ locked' # locked =>
        LET placed == WithPiece(board, piece)
            lines == Cardinality(FullRows(placed))
        IN  /\ ~Legal(board, Target("down", piece))
            /\ call'.from = piece
            /\ board' = Compacted(placed)
            /\ score' = score + lines * 100 * level
            /\ linesCleared' = linesCleared + lines
            /\ level' = (linesCleared' \div 10) + 1
            /\ dropSpeed' = 500000 \div level'
            /\ \E r \in limits.rand : piece' = createTetronino(r)
            /\ gameOver' = (gameOver \/ ~Legal(board', piece'))]_vars

(* The claim's example: one line cleared at level 1. *)
OneLineAtLevelOne ==
    /\ Locked
    /\ locked = 1
    /\ linesCleared = 1
    /\ score = 100
    /\ level = 1
    /\ dropSpeed = 500000

(***************************************************************************)
(* C9: level = floor(linesCleared / 10) + 1 in every reachable state.      *)
(***************************************************************************)
LevelFollowsLines == level = (linesCleared \div 10) + 1

(* A lock that cleared nothing, after the total passed 10: level is not reassigned. *)
LevelKeptWithoutClear ==
    /\ Locked
    /\ linesCleared >= 10
    /\ level = 2
    /\ board = WithPiece(call.board, call.to)

DropSpeedFollowsLevel ==
    /\ [](dropSpeed = 500000 \div level)
    /\ [][/\ level' > level => dropSpeed' <= dropSpeed
          /\ (linesCleared < 10 /\ linesCleared' >= 10) =>
                 (level' = 2 /\ dropSpeed' = 250000)]_vars

(* The lock that crosses the first level boundary has just been made. *)
FirstLevelUp ==
    /\ Locked
    /\ linesCleared >= 10
    /\ score < 10 * LINE_SCORE + 4 * LINE_SCORE * 2
    /\ level = 2
    /\ dropSpeed = 250000

(***************************************************************************)
(* C12: the gravity interval is strictly positive in every state, whatever *)
(* level the session has reached.                                          *)
(***************************************************************************)
DropSpeedPositive == dropSpeed > 0

(***************************************************************************)
(* C13: a step that locks a piece leaves the fresh piece at the spawn      *)
(* position (x = BOARD_WIDTH / 2 - 2, y = 0, rotation 0); if the fresh     *)
(* piece collides there gameOver is true after that very step, if it does  *)
(* not gameOver is as it was; and gameOver turns true only in a step that  *)
(* read the quit key or locked a piece whose successor collides.           *)
(***************************************************************************)
AtSpawn(p) == p.x = (BOARD_WIDTH \div 2) - 2 /\ p.y = 0 /\ p.rotation = 0

SpawnDecidesGameOver ==
    [][/\ locked' # locked =>
            /\ AtSpawn(piece')
            /\ ~Legal(board', piece') => gameOver'
            /\ Legal(board', piece') => gameOver' = gameOver
       /\ (~gameOver /\ gameOver') =>
            (key' = "q" \/ (locked' # locked /\ ~Legal(board', piece')))]_vars

(* A lock has just ended the game: the fresh piece lies on filled cells. *)
GameOverBySpawn ==
    /\ Locked
    /\ key # "q"
    /\ gameOver
    /\ AtSpawn(piece)
    /\ ~Legal(board, piece)

(***************************************************************************)
(* C14: the quit key can be read at the input step of any iteration,       *)
(* whatever the state; once it is read gameOver is true before the         *)
(* iteration ends, and the loop begins no iteration after that one.        *)
(***************************************************************************)
QuitEndsSession ==
    /\ [](pc = "input" => ENABLED KeyQuit)
    /\ [](key = "q" => gameOver)
    /\ [][key = "q" => pc' = "done"]_vars

(* Quit has been read with a piece on its way down onto a locked one. *)
QuitMidGame ==
    /\ key = "q"
    /\ pc = "gravity"
    /\ locked > 0
    /\ piece.y > 0

(***************************************************************************)
(* C15, as claimed: from the spawn (y = 0, rotation 0) an I piece over an  *)
(* empty board descends on each of the first BOARD_HEIGHT - 1 calls of     *)
(* moveTetrominoDown and is refused on the next; the k-th call is the one  *)
(* made at y = k - 1.  (19 and 20 on the board of height 20.)              *)
(***************************************************************************)
FlatIOnEmptyBoard ==
    /\ call.op \in {"down", "gravity"}
    /\ call.from.type = 0
    /\ call.from.rotation = 0
    /\ call.board = initBoard

FlatIFallsToLastRow ==
    FlatIOnEmptyBoard => (call.ok <=> call.from.y < BOARD_HEIGHT - 1)

(***************************************************************************)
(* C15, amended: y is 0 at the spawn and changes only by one per accepted  *)
(* descent, and the I piece at rotation 0 over an empty board descends on  *)
(* each of the first BOARD_HEIGHT - 2 calls and is refused on the next: it *)
(* fills row 1 of its box, which then lies in the last row.  (18 and 19 on *)
(* the board of height 20.)                                                *)
(***************************************************************************)
FlatIFallsUntilItsRowIsLast ==
    /\ [](FlatIOnEmptyBoard => (call.ok <=> call.from.y < BOARD_HEIGHT - 2))
    /\ [][\/ piece'.y = piece.y
          \/ locked' # locked /\ piece'.y = 0
          \/ /\ piece'.y = piece.y + 1
             /\ call'.op \in {"down", "gravity"}
             /\ call'.ok]_vars

(* The I piece has been refused after BOARD_HEIGHT - 2 descents from the spawn. *)
FlatIRefused ==
    /\ FlatIOnEmptyBoard
    /\ ~call.ok
    /\ call.from.y = BOARD_HEIGHT - 2
    /\ call.from.x = (BOARD_WIDTH \div 2) - 2

(***************************************************************************)
(* C16: each of the 7 x 4 masks of the shape table has exactly four set    *)
(* cells, and the piece in play always covers four distinct cells.         *)
(***************************************************************************)
MaskCells(type, rotation) ==
    { yx \in Local \X Local : ShapeAt(type, rotation, yx[1], yx[2]) # 0 }

EveryMaskHasFourCells ==
    /\ \A type \in 0 .. (NUM_OF_SHAPES - 1) : \A rotation \in 0 .. 3 :
          Cardinality(MaskCells(type, rotation)) = 4
    /\ Cardinality(PlacedCells(piece)) = 4

(* The last mask of the table is the one in play. *)
LastMaskInPlay ==
    /\ piece.type = NUM_OF_SHAPES - 1
    /\ piece.rotation = 3
    /\ Cardinality(MaskCells(piece.type, piece.rotation)) = 4

(***************************************************************************)
(* C17: a step that reads the left, right or rotate key changes neither    *)
(* the board nor score, level, total of lines, interval or gameOver, locks *)
(* nothing and keeps the piece (its type and row) in play; and the board   *)
(* changes only in a step that locks: it becomes what placeTetromino and   *)
(* then clearLines make of it.                                             *)
(***************************************************************************)
MoveKeysTouchOnlyThePiece ==
    [][/\ key' \in {"a", "d", "w"} =>
            /\ UNCHANGED <<board, score, level, linesCleared, dropSpeed, gameOver, locked>>
            /\ piece'.type = piece.type
            /\ piece'.y = piece.y
       /\ board' # board =>
            /\ locked' = locked + 1
            /\ board' = clearLines(placeTetromino(board, call'.to)).board]_vars

(* The right key has been refused beside or above a locked piece. *)
MoveKeyRefused ==
    /\ key = "d"
    /\ call.op = "right"
    /\ ~call.ok
    /\ locked > 0

(***************************************************************************)
(* C18: the input step of an iteration takes at most one of the typed      *)
(* bytes; when a byte is waiting the key it acts on is that byte, the      *)
(* oldest one; when none is waiting it takes nothing and acts on no key.   *)
(***************************************************************************)
OneKeyPerIteration ==
    [][(pc = "input" /\ pc' = "gravity") =>
            /\ Len(stdin) - Len(stdin') <= 1
            /\ stdin # << >> => key' = Head(stdin)
            /\ stdin = << >> => (stdin' = stdin /\ key' = NoChar)]_vars

(***************************************************************************)
(* C19: for the piece of every state, the cells placeTetromino writes are  *)
(* the cells is_in_valid_position tests, and the ones of them on the board *)
(* are the cells displayGame draws the piece on; the test accepts the      *)
(* piece exactly if all these cells are on the board and empty, and the    *)
(* frame displayGame shows is the board placeTetromino would leave.        *)
(***************************************************************************)
MaskConsumersAgree ==
    /\ PlacedCells(piece) = TestedCells(piece)
    /\ OverlaidCells(piece) = PlacedCells(piece) \cap (Rows \X Cols)
    /\ is_in_valid_position(board, piece) <=>
          \A c \in TestedCells(piece) :
              c \in Rows \X Cols /\ board[c[1]][c[2]] = EMPTY_CELL
    /\ displayGame(board, piece) = placeTetromino(board, piece)

(* An L piece on its side, away from the diagonal, over a locked piece. *)
LopsidedPieceShown ==
    /\ piece.type = 4
    /\ piece.rotation = 1
    /\ piece.x # piece.y
    /\ locked > 0
    /\ is_in_valid_position(board, piece)
    /\ displayGame(board, piece) # board

(***************************************************************************)
(* C20: whenever the loop is about to begin an iteration with gameOver     *)
(* false, the piece in play lies wholly on the board and on empty cells;   *)
(* this includes the first piece, which main creates without testing it.   *)
(***************************************************************************)
PieceLegalAtLoopBoundary ==
    (pc = "input" /\ ~gameOver) => Legal(board, piece)

(* An iteration is about to begin with a piece spawned over a locked one. *)
SpawnedOverLockedPiece ==
    /\ pc = "input"
    /\ ~gameOver
    /\ locked > 0
    /\ AtSpawn(piece)
    /\ board # initBoard

(***************************************************************************)
(* C21: while a piece is in play its y never decreases; a gravity step     *)
(* takes the piece down one row or locks it, and y stays below             *)
(* BOARD_HEIGHT, so the piece is locked by its BOARD_HEIGHT-th gravity     *)
(* step at the latest; and with the timeouts coming and the gravity block  *)
(* never left hanging before its lock, a piece in play is eventually       *)
(* locked and replaced unless the game ends first, whatever keys are read  *)
(* in between.                                                             *)
(***************************************************************************)
PieceEventuallyLocked ==
    /\ [][locked' = locked => piece'.y >= piece.y]_vars
    /\ [][call'.op = "gravity" =>
            \/ locked' = locked + 1 /\ ~call'.ok /\ piece'.y = 0
            \/ locked' = locked /\ call'.ok /\ piece'.y = piece.y + 1]_vars
    /\ [](piece.y >= 0 /\ piece.y < BOARD_HEIGHT)
    /\ []<>(~LockDue) =>
          \A n \in 0 .. (FairLocked - 1) :
              (locked = n /\ ~gameOver) ~> (locked > n \/ gameOver)

(* Gravity has locked a piece that keys had moved aside and turned. *)
LockedByGravityAfterKeys ==
    /\ Locked
    /\ call.op = "gravity"
    /\ call.from.x # (BOARD_WIDTH \div 2) - 2
    /\ call.from.rotation # 0
    /\ ~gameOver

(***************************************************************************)
(* C22: whenever the loop is at the head of an iteration or has ended, the *)
(* number of Filled cells of the board is four times the number of pieces  *)
(* locked so far less BOARD_WIDTH times the total of cleared lines; and a  *)
(* step that locks a piece changes the number by four, less BOARD_WIDTH    *)
(* for each line it clears.                                                *)
(***************************************************************************)
FilledCells(b) == Cardinality({ c \in Rows \X Cols : b[c[1]][c[2]] = FILLED_CELL })

FilledCellsBalance ==
    /\ [](pc \in {"input", "done"} =>
            FilledCells(board) = 4 * locked - BOARD_WIDTH * linesCleared)
    /\ [][locked' # locked =>
            /\ locked' = locked + 1
            /\ FilledCells(board') =
                  FilledCells(board) + 4 - BOARD_WIDTH * (linesCleared' - linesCleared)]_vars

(* An iteration begins after lines were cleared in more than one lock, with cells left. *)
CellsLeftAfterClears ==
    /\ pc = "input"
    /\ linesCleared >= 3
    /\ locked >= 4
    /\ FilledCells(board) > 0
    /\ FilledCells(board) = 4 * locked - BOARD_WIDTH * linesCleared

====
